---- MODULE Spec2Model ----
(***************************************************************************)
(* Resumable Social Blade enrichment pipeline of main.py:                  *)
(* the `enhance` command, SocialBladeEnhancer.enhance_data with its        *)
(* checkpoint file (socialblade_progress.json) and dataset file            *)
(* (enhanced_subscriptions.csv), and the outcome of                        *)
(* SocialBladeScraper.fetch_channel_stats for one channel.                 *)
(*                                                                         *)
(* A dataset keeps, of the 21 socialblade_* columns, three representative  *)
(* ones in the order vars(stats) yields them: a scalar read by _get_text   *)
(* (subscribers), the scalar set from the video list                       *)
(* (last_video_upload_date) and the last column                            *)
(* (last_50_videos_stats_json); the other scalars of a SocialBladeStats    *)
(* kept here are not carried into the dataset.  The four non-key input     *)
(* columns are never null and never written, so a row keeps only           *)
(* channel_id and the cells of the enrichment columns.  Columns are        *)
(* created by df.at in that fixed order, so the set of columns present is  *)
(* a prefix, kept as its length.                                           *)
(***************************************************************************)
EXTENDS Integers, Sequences, FiniteSets, TLC

\* ---------------------------------------------------------------- bounds
NumSubjects == 2          \* rows of subscriptions.csv under Spec
NumSubjectsLong == 21     \* rows of subscriptions.csv under SpecLong
MaxRuns == 2              \* invocations of the enhance command in a behaviour
MaxFailed == 1            \* non-200 profile pages in a behaviour
MaxDegraded == 1          \* pages without the locator, non-200 video lists
MaxStops == 1             \* Ctrl-C and terminations in a behaviour

\* ------------------------------------------------------ program constants
SaveEvery == 10           \* if idx % 10 == 0
BaseColumns == 5          \* elif len(df.columns) > 5

\* ------------------------------------------------------------ cell values
NoneVal == "None"         \* Python None / NaN in a DataFrame cell
NA == "N/A"               \* the sentinel of SocialBladeStats and _get_text
EmptyCell == ""           \* an empty CSV field

EnrichColumns ==
    << "subscribers", "last_video_upload_date", "last_50_videos_stats_json" >>

NumColumns == Len(EnrichColumns)

Max(a, b) == IF a >= b THEN a ELSE b

\* ------------------------------------------------------------- CSV files
\* DataFrame.to_csv writes a missing value (None, NaN) as an empty field and
\* every string as itself.
to_csv_cell(v) == IF v = NoneVal THEN EmptyCell ELSE v

to_csv(frame) ==
    [exists |-> TRUE,
     ncols  |-> frame.ncols,
     rows   |-> [i \in 1..Len(frame.rows) |->
                   [channel_id |-> frame.rows[i].channel_id,
                    cells |-> [k \in 1..NumColumns |->
                                 to_csv_cell(frame.rows[i].cells[k])]]]]

\* pd.read_csv reads an empty field and the default NA strings, "N/A" among
\* them, as NaN; read_csv_pandas then replaces NaN and "--" by None.
\* (The dtype inference of read_csv, which can rewrite a numeric string, is
\* left out: the data values here are not numeric.)
read_csv_cell(c) ==
    IF c \in {EmptyCell, NA, "--"} THEN NoneVal ELSE c

read_csv_pandas(file) ==
    [ncols |-> file.ncols,
     rows  |-> [i \in 1..Len(file.rows) |->
                  [channel_id |-> file.rows[i].channel_id,
                   cells |-> [k \in 1..NumColumns |->
                                read_csv_cell(file.rows[i].cells[k])]]]]

NoFile == [exists |-> FALSE, ncols |-> 0, rows |-> << >>]

NoneCells == [k \in 1..NumColumns |-> NoneVal]

\* subscriptions.csv with n channels: one row per channel, ids 1..n.
InputRows(n) == [i \in 1..n |-> [channel_id |-> i, cells |-> NoneCells]]

EmptyFrame == [ncols |-> 0, rows |-> << >>]

\* ------------------------------------------------------- checkpoint file
\* What json.load makes of the content of socialblade_progress.json:
\* "progress" is an object with the key processed_channels (what
\* save_progress writes), "no_key" is well-formed JSON without that key,
\* "not_json" is text json.load rejects with JSONDecodeError.
ProgressContents == {"progress", "no_key", "not_json"}

NoProgress == [exists |-> FALSE, content |-> "progress", ids |-> {}]

\* save_progress: the whole set overwrites the file.
save_progress(processed_channels) ==
    [exists |-> TRUE, content |-> "progress", ids |-> processed_channels]

\* The identifiers a reader of the file can find in it.
StoredIds(file) ==
    IF file.exists /\ file.content = "progress" THEN file.ids ELSE {}

\* Faulty variant: the stored checkpoint is never read.
load_progress_ignored(file) == [has_key |-> TRUE, processed_channels |-> {}]

\* load_progress: what json.load returns, or {"processed_channels": []} when
\* there is no file or json.load raises JSONDecodeError.
load_progress(file) ==
    IF file.exists /\ file.content # "not_json"
    THEN [has_key |-> file.content = "progress", processed_channels |-> file.ids]
    ELSE [has_key |-> TRUE, processed_channels |-> {}]

\* ------------------------------------------------------------ the scraper
\* The profile page as BeautifulSoup sees it: for each selector the element
\* select_one finds.  "missing": none; "bare": an element without the
\* attribute asked for, without children, without text; "full": an element
\* with all of them.  Three selectors stand for the fifteen, one for each way
\* _get_text reads an element.
Selectors == {"avatar", "subscribers", "subscribers_last_30_days"}
Elements == {"missing", "bare", "full"}
Soups == [Selectors -> Elements]

\* attr="src", call_firstChild=True, or neither.
Mode(selector) ==
    IF selector = "avatar" THEN "attr"
    ELSE IF selector = "subscribers_last_30_days" THEN "first_child"
    ELSE "text"

\* What a full element holds.
Content(selector) ==
    IF selector = "avatar" THEN "https://yt3/a.jpg"
    ELSE IF selector = "subscribers_last_30_days" THEN "+1K"
    ELSE "12K"

Page == [selector \in Selectors |-> "full"]
PageWithoutLocator == [Page EXCEPT !["subscribers"] = "missing"]

\* soup.select("#socialblade-user-content > div")[6:20]: the rows of the
\* daily table, or nothing when the container has fewer than seven divs.
DailyRows == {"rows", "no_rows"}

\* What the remote site answers to the two requests for one channel.  The
\* pipeline is run against ProfileResponses and VideoResponses (the regular
\* page, and a page that lacks the subscribers element and the daily table),
\* the scraper alone against every page and every video list below.
OkStatus == "200"
ErrorStatus == "500"

AllProfileResponses ==
    {[status |-> ErrorStatus, soup |-> Page, daily |-> "rows"]} \cup
    {[status |-> OkStatus, soup |-> d, daily |-> rows] :
        d \in Soups, rows \in DailyRows}

ProfileResponses ==
    {r \in AllProfileResponses :
        \/ r.soup = Page /\ r.daily = "rows"
        \/ r.soup = PageWithoutLocator /\ r.daily = "no_rows"}

\* "videos_null_date": a list whose first record has "created_at": null;
\* "no_videos": the empty list; "not_json": a body response.json() cannot
\* decode; "null_body": the JSON document null in place of a list.
AllVideoResponses ==
    {"500", "videos", "videos_null_date", "no_videos", "not_json",
     "null_body"}
VideoResponses == {"500", "videos"}

NoResponse ==
    [profile |-> [status |-> ErrorStatus, soup |-> Page, daily |-> "rows"],
     video |-> "none", requests |-> << >>]

FailSignal ==
    [ok |-> FALSE, avatar |-> NoneVal, subscribers |-> NoneVal,
     subscribers_last_30_days |-> NoneVal,
     recent_daily_stats_json |-> NoneVal,
     last_video_upload_date |-> NoneVal,
     last_50_videos_stats_json |-> NoneVal]

\* _extract_recent_daily_stats: the list of DailyStats of the rows found,
\* the empty list when there is none.
EmptyList == "list()"

extract_recent_daily_stats(daily) ==
    IF daily = "rows" THEN "[DailyStats(...)]" ELSE EmptyList

\* Faulty variant: a selector that finds nothing yields None.
get_text_none(soup, selector) ==
    IF soup[selector] = "full" THEN Content(selector) ELSE NoneVal

\* _get_text: "N/A" when select_one finds nothing; else element.get(attr,
\* "N/A"), or the text of the first child ("N/A" by the except clause when
\* there is no child), or the text of the element.
get_text(soup, selector) ==
    IF soup[selector] = "missing" THEN NA
    ELSE IF Mode(selector) = "attr"
         THEN (IF soup[selector] = "full" THEN Content(selector) ELSE NA)
    ELSE IF Mode(selector) = "first_child"
         THEN (IF soup[selector] = "full" THEN Content(selector) ELSE NA)
    ELSE (IF soup[selector] = "full" THEN Content(selector) ELSE EmptyCell)

\* fetch_video_stats: None on a non-200 status and when response.json()
\* raises; else the first video's created_at ("N/A" when the decoded body is
\* falsy: an empty list, null) and the decoded body, which the caller
\* serialises with json.dumps.
NoVideo == [ok |-> FALSE, date |-> NoneVal, videos |-> NoneVal]

fetch_video_stats(vresp) ==
    IF vresp = "videos"
    THEN [ok |-> TRUE, date |-> "2024-01-01", videos |-> "[{...}]"]
    ELSE IF vresp = "videos_null_date"
    THEN [ok |-> TRUE, date |-> NoneVal, videos |-> "[{null}]"]
    ELSE IF vresp = "no_videos"
    THEN [ok |-> TRUE, date |-> NA, videos |-> "[]"]
    ELSE IF vresp = "null_body"
    THEN [ok |-> TRUE, date |-> NA, videos |-> "null"]
    ELSE NoVideo

\* Faulty variant: a failed video-list request fails the whole fetch.
fetch_channel_stats_all_or_nothing(presp, vresp) ==
    IF presp.status # OkStatus \/ ~fetch_video_stats(vresp).ok
    THEN FailSignal
    ELSE LET video_result == fetch_video_stats(vresp)
         IN  [ok |-> TRUE,
              avatar |-> get_text(presp.soup, "avatar"),
              subscribers |-> get_text(presp.soup, "subscribers"),
              subscribers_last_30_days |->
                  get_text(presp.soup, "subscribers_last_30_days"),
              recent_daily_stats_json |->
                  extract_recent_daily_stats(presp.daily),
              last_video_upload_date |-> video_result.date,
              last_50_videos_stats_json |-> video_result.videos]

\* fetch_channel_stats: None on a non-200 profile page; else the dataclass
\* with its defaults ("N/A", None) overwritten by what the page and the
\* video list yield.
fetch_channel_stats(presp, vresp) ==
    IF presp.status # OkStatus
    THEN FailSignal
    ELSE LET video_result == fetch_video_stats(vresp)
         IN  [ok |-> TRUE,
              avatar |-> get_text(presp.soup, "avatar"),
              subscribers |-> get_text(presp.soup, "subscribers"),
              subscribers_last_30_days |->
                  get_text(presp.soup, "subscribers_last_30_days"),
              recent_daily_stats_json |->
                  extract_recent_daily_stats(presp.daily),
              last_video_upload_date |->
                  IF video_result.ok THEN video_result.date ELSE NA,
              last_50_videos_stats_json |->
                  IF video_result.ok THEN video_result.videos ELSE NoneVal]

\* Faulty variant: the video list is requested whatever the profile page's
\* status.
AnsweredVideoAlways(presp, vresp) ==
    [profile |-> presp, video |-> vresp, requests |-> << "get", "post" >>]

\* The requests a fetch made, in order, and what they were answered: one
\* session.get for the profile page, and no session.post for the video list
\* after a non-200 profile page.
Answered(presp, vresp) ==
    [profile |-> presp,
     video |-> IF presp.status = OkStatus THEN vresp ELSE "none",
     requests |-> IF presp.status = OkStatus THEN << "get", "post" >>
                  ELSE << "get" >>]

\* vars(stats): the value of the k-th enrichment column.
StatsValue(s, k) ==
    IF k = 1 THEN s.subscribers
    ELSE IF k = 2 THEN s.last_video_upload_date
    ELSE s.last_50_videos_stats_json

\* -------------------------------------------------------------- the merge
\* pd.merge(df, enhanced_df.drop(columns=[...]), on="channel_id", how="left"):
\* every row of df in order, once per row of enhanced_df with its channel_id,
\* or once with missing values when there is none.
RECURSIVE LeftJoin(_, _)
LeftJoin(rows, right) ==
    IF rows = << >>
    THEN << >>
    ELSE LET r == Head(rows)
             m == SelectSeq(right, LAMBDA x : x.channel_id = r.channel_id)
         IN  (IF m = << >> THEN << r >> ELSE m) \o LeftJoin(Tail(rows), right)

\* Faulty variant: the prior dataset is not joined.
merge_dropped(frame, enhanced_df) == frame

merge(frame, enhanced_df) ==
    [ncols |-> enhanced_df.ncols, rows |-> LeftJoin(frame.rows, enhanced_df.rows)]

\* df.at[idx, "socialblade_" + column k] = value: the cell is set and the
\* column exists from then on.
SetCell(frame, idx, k, value) ==
    [ncols |-> Max(frame.ncols, k),
     rows  |-> [frame.rows EXCEPT ![idx + 1].cells[k] = value]]

\* ------------------------------------------------------------------ state
VARIABLES
    inputFile,      \* subscriptions.csv: the rows of the input
    inputExists,    \* os.path.exists(self.input_file)
    enhancedFile,   \* enhanced_subscriptions.csv
    progressFile,   \* socialblade_progress.json
    failBudget,     \* non-200 profile pages the remote site may still answer
    degradeBudget,  \* other irregular responses it may still give
    stopBudget,     \* Ctrl-C and terminations that may still happen
    pc,             \* where the process is
    resume,         \* the --resume/--no-resume flag of this invocation
    df,             \* the DataFrame of enhance_data
    processed,      \* processed_channels
    idx,            \* the index df.iterrows() is at
    stats,          \* what fetch_channel_stats returned for this row
    response,       \* what the remote site answered to that fetch
    col,            \* columns of stats_dict already written into the row
    \* history of the run, read by the properties only
    runs,           \* invocations of enhance so far
    prevEnd,        \* how the previous invocation ended
    doneFile,       \* the dataset file of a previous run that fetched it all
    loaded,         \* the ids a run with resume found in the checkpoint file
    prior,          \* the rows of enhanced_df merged at the start of this run
    fetched,        \* channels fetch_channel_stats was called for, this run
    failed,         \* those of them for which it returned None
    skipped,        \* channels passed by `continue`
    failedPrev,     \* failed of the previous run
    dirty,          \* channels merged into df since the last to_csv
    flushedAt,      \* the idx at which the periodic to_csv ran, this run
    removed,        \* os.remove(progress_file) ran in this run
    obs,            \* what fetch_channel_stats returned for each channel
    det             \* no channel has been fetched with two different results

vars == << inputFile, inputExists, enhancedFile, progressFile, failBudget,
           degradeBudget, stopBudget, pc, resume, df, processed, idx, stats,
           response, col, runs, prevEnd, doneFile, loaded, prior, fetched,
           failed, skipped, failedPrev, dirty, flushedAt, removed, obs,
           det >>

files == << inputFile, inputExists, enhancedFile, progressFile >>
env == << failBudget, degradeBudget, stopBudget >>
memory == << df, processed, idx, stats, response, col >>
history == << runs, prevEnd, doneFile, loaded, prior, fetched, failed,
              skipped, failedPrev, removed >>

\* "aborted": an exception reached the outer handler of enhance_data, which
\* logs it and returns.
Stopped == {"idle", "done", "interrupted", "killed", "returned", "aborted"}
InTry == {"merge", "loop", "fetch", "update", "record", "periodic",
          "final", "remove"}

Unseen == [ok |-> FALSE, avatar |-> "?", subscribers |-> "?",
           subscribers_last_30_days |-> "?", recent_daily_stats_json |-> "?",
           last_video_upload_date |-> "?",
           last_50_videos_stats_json |-> "?"]

InitWith(n, fails, degraded, stops) ==
    /\ inputFile = InputRows(n)
    /\ inputExists = TRUE
    /\ enhancedFile = NoFile
    /\ progressFile = NoProgress
    /\ failBudget = fails
    /\ degradeBudget = degraded
    /\ stopBudget = stops
    /\ pc = "idle"
    /\ resume = TRUE
    /\ df = EmptyFrame
    /\ processed = {}
    /\ idx = 0
    /\ stats = FailSignal
    /\ response = NoResponse
    /\ col = 0
    /\ runs = 0
    /\ prevEnd = "none"
    /\ doneFile = NoFile
    /\ loaded = {}
    /\ prior = << >>
    /\ fetched = {}
    /\ failed = {}
    /\ skipped = {}
    /\ failedPrev = {}
    /\ dirty = {}
    /\ flushedAt = {}
    /\ removed = FALSE
    /\ obs = [i \in 1..n |-> Unseen]
    /\ det = TRUE

Init == InitWith(NumSubjects, MaxFailed, MaxDegraded, MaxStops)

\* ------------------------------------------------------ the enhance command
\* df.iloc[-1].values[-1] of the dataset file: the last column of the last
\* row.  Without enrichment columns the last column is fetch_date.
LastRowLastValue(d) ==
    IF d.ncols = 0 THEN "fetch_date" ELSE d.rows[Len(d.rows)].cells[d.ncols]

\* The command returns without calling enhance_data when the dataset file
\* exists, that value is not None and the file has more than 5 columns.
AlreadyCompleted(file) ==
    /\ file.exists
    /\ LET d == read_csv_pandas(file)
       IN  /\ LastRowLastValue(d) # NoneVal
           /\ BaseColumns + d.ncols > BaseColumns

\* Faulty variant: the input file is taken to be there.
input_file_assumed(exists) == TRUE

\* if not os.path.exists(self.input_file): raise FileNotFoundError
input_file_found(exists) == exists

\* progress = self.load_progress() if resume else {"processed_channels": []}
InitialProgress(r, file) ==
    IF r THEN load_progress(file)
    ELSE [has_key |-> TRUE, processed_channels |-> {}]

\* Faulty variant: every run starts from the empty set.
InitialProcessedEmpty(r, file) == {}

\* processed_channels = set(progress["processed_channels"]), which raises
\* KeyError when the key is not there (see Enhance).
InitialProcessed(r, file) == InitialProgress(r, file).processed_channels

\* `enhance`, up to the inner try of enhance_data: the gate, the check and
\* the read of the input file and the load of the checkpoint.  The
\* FileNotFoundError and the KeyError are raised inside the outer try only:
\* its handler logs them and enhance_data returns.
Enhance(r) ==
    /\ pc \in Stopped
    /\ runs < MaxRuns
    /\ resume' = r
    /\ runs' = runs + 1
    /\ prevEnd' = pc
    /\ doneFile' = IF pc = "done" /\ skipped = {} /\ failed = {}
                   THEN enhancedFile ELSE NoFile
    /\ loaded' = IF r THEN StoredIds(progressFile) ELSE {}
    /\ prior' = << >>
    /\ fetched' = {}
    /\ failed' = {}
    /\ skipped' = {}
    /\ failedPrev' = failed
    /\ dirty' = {}
    /\ flushedAt' = {}
    /\ removed' = FALSE
    /\ idx' = 0
    /\ stats' = FailSignal
    /\ response' = NoResponse
    /\ col' = 0
    /\ IF AlreadyCompleted(enhancedFile)
       THEN /\ pc' = "returned"
            /\ df' = EmptyFrame
            /\ processed' = {}
       ELSE IF \/ ~input_file_found(inputExists)
               \/ ~InitialProgress(r, progressFile).has_key
       THEN /\ pc' = "aborted"
            /\ df' = EmptyFrame
            /\ processed' = {}
       ELSE /\ pc' = "merge"
            /\ df' = [ncols |-> 0, rows |-> inputFile]
            /\ processed' = InitialProcessed(r, progressFile)
    /\ UNCHANGED << files, env, obs, det >>

\* ------------------------------------------------------------ enhance_data
Row == df.rows[idx + 1]

\* if os.path.exists(self.enhanced_file): the left join.
Merge ==
    /\ pc = "merge"
    /\ IF enhancedFile.exists
       THEN /\ df' = merge(df, read_csv_pandas(enhancedFile))
            /\ prior' = read_csv_pandas(enhancedFile).rows
       ELSE UNCHANGED << df, prior >>
    /\ pc' = "loop"
    /\ UNCHANGED << files, env, resume, processed, idx, stats, response, col,
                    runs, prevEnd, doneFile, loaded, fetched, failed,
                    skipped, failedPrev, dirty, flushedAt, removed, obs,
                    det >>

\* if row["channel_id"] in processed_channels: continue
Skip ==
    /\ pc = "loop"
    /\ idx < Len(df.rows)
    /\ Row.channel_id \in processed
    /\ idx' = idx + 1
    /\ skipped' = skipped \cup {Row.channel_id}
    /\ UNCHANGED << files, env, pc, resume, df, processed, stats, response,
                    col, runs, prevEnd, doneFile, loaded, prior, fetched,
                    failed, failedPrev, dirty, flushedAt, removed, obs,
                    det >>

\* stats = self.scraper.fetch_channel_stats(row["channel_id"]): the call.
CallFetch ==
    /\ pc = "loop"
    /\ idx < Len(df.rows)
    /\ Row.channel_id \notin processed
    /\ pc' = "fetch"
    /\ fetched' = fetched \cup {Row.channel_id}
    /\ UNCHANGED << files, env, resume, memory, runs, prevEnd, doneFile,
                    loaded, prior, failed, skipped, failedPrev, dirty,
                    flushedAt, removed, obs, det >>

\* The irregular responses among the two: a non-200 profile page (no video
\* request follows it), or a page without the locator, a page without the
\* daily table, a non-200 video list.
Failures(presp) == IF presp.status # OkStatus THEN 1 ELSE 0

Degraded(presp, vresp) ==
    IF presp.status # OkStatus THEN 0
    ELSE (IF presp.soup = Page /\ presp.daily = "rows" THEN 0 ELSE 1) +
         (IF vresp = "videos" THEN 0 ELSE 1)

\* ... and its return, for the responses of the remote site.
FetchReturn(presp, vresp) ==
    /\ pc = "fetch"
    /\ Failures(presp) <= failBudget
    /\ Degraded(presp, vresp) <= degradeBudget
    /\ failBudget' = failBudget - Failures(presp)
    /\ degradeBudget' = degradeBudget - Degraded(presp, vresp)
    /\ LET s == fetch_channel_stats(presp, vresp)
           c == Row.channel_id
       IN  /\ stats' = s
           /\ response' = Answered(presp, vresp)
           /\ failed' = IF s.ok THEN failed ELSE failed \cup {c}
           /\ det' = (det /\ obs[c] \in {Unseen, s})
           /\ obs' = [obs EXCEPT ![c] = s]
           /\ pc' = IF s.ok THEN "update" ELSE "record"
    /\ col' = 0
    /\ UNCHANGED << files, stopBudget, resume, df, processed, idx, runs,
                    prevEnd, doneFile, loaded, prior, fetched, skipped,
                    failedPrev, dirty, flushedAt, removed >>

\* vars(stats) holds recent_daily_stats_json after subscribers and before
\* last_video_upload_date.  json.dumps replaces the list only when it is
\* truthy, so an empty list reaches df.at as a list.  df.at stores a list in
\* a column that exists (an object column, since it holds strings and None);
\* when the column does not exist yet it falls back to df.loc, which takes a
\* list for the values of several cells and raises ValueError for a list of
\* another length than the one cell addressed.
DailyColumnAfter ==
    CHOOSE k \in 1..NumColumns : EnrichColumns[k] = "subscribers"

SetDailyRaises(frame, s, k) ==
    /\ k = DailyColumnAfter
    /\ s.recent_daily_stats_json = EmptyList
    /\ frame.ncols <= DailyColumnAfter

\* for key, value in stats_dict.items(): df.at[idx, f"socialblade_{key}"] = value
\* (one column per step).  The ValueError is not caught by the handler of
\* the inner try (KeyboardInterrupt only): it reaches the outer handler,
\* which logs it, and enhance_data returns.
UpdateCell ==
    /\ pc = "update"
    /\ IF SetDailyRaises(df, stats, col)
       THEN /\ pc' = "aborted"
            /\ df' = EmptyFrame
            /\ processed' = {}
            /\ idx' = 0
            /\ stats' = FailSignal
            /\ response' = NoResponse
            /\ col' = 0
            /\ dirty' = {}
       ELSE /\ df' = SetCell(df, idx, col + 1, StatsValue(stats, col + 1))
            /\ col' = col + 1
            /\ dirty' = dirty \cup {Row.channel_id}
            /\ pc' = IF col + 1 = NumColumns THEN "record" ELSE "update"
            /\ UNCHANGED << processed, idx, stats, response >>
    /\ UNCHANGED << files, env, resume, history, flushedAt, obs, det >>

\* Faulty variant: the checkpoint is recorded whatever the fetch returned.
ShouldRecordAlways(s) == TRUE

\* if stats is not None:
ShouldRecord(s) == s.ok

\* Faulty variant: the channel is added to the set in memory and the file is
\* left as it was.
RecordInMemoryOnly ==
    /\ pc = "record"
    /\ IF ShouldRecord(stats)
       THEN /\ processed' = processed \cup {Row.channel_id}
            /\ UNCHANGED progressFile
       ELSE UNCHANGED << processed, progressFile >>
    /\ pc' = "periodic"
    /\ UNCHANGED << inputFile, inputExists, enhancedFile, env, resume, df,
                    idx, stats, response, col, history, dirty, flushedAt,
                    obs, det >>

\* processed_channels.add(...); self.save_progress(list(processed_channels))
Record ==
    /\ pc = "record"
    /\ IF ShouldRecord(stats)
       THEN /\ processed' = processed \cup {Row.channel_id}
            /\ progressFile' = save_progress(processed')
       ELSE UNCHANGED << processed, progressFile >>
    /\ pc' = "periodic"
    /\ UNCHANGED << inputFile, inputExists, enhancedFile, env, resume, df,
                    idx, stats, response, col, history, dirty, flushedAt,
                    obs, det >>

\* if idx % 10 == 0: df.to_csv(self.enhanced_file, index=False)
SaveDue(i) == i % SaveEvery = 0

PeriodicSave ==
    /\ pc = "periodic"
    /\ IF SaveDue(idx)
       THEN /\ enhancedFile' = to_csv(df)
            /\ dirty' = {}
            /\ flushedAt' = flushedAt \cup {idx}
       ELSE UNCHANGED << enhancedFile, dirty, flushedAt >>
    /\ idx' = idx + 1
    /\ stats' = FailSignal
    /\ response' = NoResponse
    /\ col' = 0
    /\ pc' = "loop"
    /\ UNCHANGED << inputFile, inputExists, progressFile, env, resume, df,
                    processed, history, obs, det >>

\* df.iterrows() is exhausted.
LoopExit ==
    /\ pc = "loop"
    /\ idx = Len(df.rows)
    /\ pc' = "final"
    /\ UNCHANGED << files, env, resume, memory, history, dirty, flushedAt,
                    obs, det >>

\* Faulty variant: no final save.
FinalSaveSkipped ==
    /\ pc = "final"
    /\ pc' = "remove"
    /\ UNCHANGED << files, env, resume, memory, history, dirty, flushedAt,
                    obs, det >>

\* Final save
FinalSave ==
    /\ pc = "final"
    /\ enhancedFile' = to_csv(df)
    /\ dirty' = {}
    /\ pc' = "remove"
    /\ UNCHANGED << inputFile, inputExists, progressFile, env, resume,
                    memory, history, flushedAt, obs, det >>

\* Faulty variant: the checkpoint file is left in place.
RemoveProgressSkipped ==
    /\ pc = "remove"
    /\ pc' = "done"
    /\ UNCHANGED << files, env, resume, memory, history, dirty, flushedAt,
                    obs, det >>

\* if os.path.exists(self.progress_file): os.remove(self.progress_file)
RemoveProgress ==
    /\ pc = "remove"
    /\ progressFile' = NoProgress
    /\ removed' = progressFile.exists
    /\ pc' = "done"
    /\ UNCHANGED << inputFile, inputExists, enhancedFile, env, resume,
                    memory, runs, prevEnd, doneFile, loaded, prior, fetched,
                    failed, skipped, failedPrev, dirty, flushedAt, obs,
                    det >>

\* Faulty variant: the handler saves the checkpoint but not the dataset.
KeyboardInterruptNoDataset ==
    /\ pc \in InTry
    /\ stopBudget > 0
    /\ progressFile' = save_progress(processed)
    /\ pc' = "interrupted"
    /\ stopBudget' = stopBudget - 1
    /\ UNCHANGED << inputFile, inputExists, enhancedFile, failBudget,
                    degradeBudget, resume, memory, history, dirty, flushedAt,
                    obs, det >>

\* except KeyboardInterrupt, raised anywhere inside the inner try.
KeyboardInterrupt ==
    /\ pc \in InTry
    /\ stopBudget > 0
    /\ enhancedFile' = to_csv(df)
    /\ progressFile' = save_progress(processed)
    /\ dirty' = {}
    /\ pc' = "interrupted"
    /\ stopBudget' = stopBudget - 1
    /\ UNCHANGED << inputFile, inputExists, failBudget, degradeBudget,
                    resume, memory, history, flushedAt, obs, det >>

\* The process is terminated without running any handler: its memory is gone.
Kill ==
    /\ pc \in InTry
    /\ stopBudget > 0
    /\ stopBudget' = stopBudget - 1
    /\ pc' = "killed"
    /\ df' = EmptyFrame
    /\ processed' = {}
    /\ idx' = 0
    /\ stats' = FailSignal
    /\ response' = NoResponse
    /\ col' = 0
    /\ dirty' = {}
    /\ UNCHANGED << files, failBudget, degradeBudget, resume, history,
                    flushedAt, obs, det >>

\* The process is terminated inside save_progress, after open(..., "w") has
\* truncated the file and before json.dump has written it out.
KillInSave ==
    /\ pc = "record"
    /\ ShouldRecord(stats)
    /\ stopBudget > 0
    /\ stopBudget' = stopBudget - 1
    /\ progressFile' = [exists |-> TRUE, content |-> "not_json", ids |-> {}]
    /\ pc' = "killed"
    /\ df' = EmptyFrame
    /\ processed' = {}
    /\ idx' = 0
    /\ stats' = FailSignal
    /\ response' = NoResponse
    /\ col' = 0
    /\ dirty' = {}
    /\ UNCHANGED << inputFile, inputExists, enhancedFile, failBudget,
                    degradeBudget, resume, history, flushedAt, obs, det >>

\* Between two invocations the checkpoint file is edited into JSON that has
\* no "processed_channels" key.  No process of the pipeline is left whose
\* end the files would still show.
DamageProgress ==
    /\ pc \in Stopped
    /\ runs < MaxRuns
    /\ progressFile.exists
    /\ progressFile.content = "progress"
    /\ progressFile' = [exists |-> TRUE, content |-> "no_key", ids |-> {}]
    /\ pc' = "idle"
    /\ UNCHANGED << inputFile, inputExists, enhancedFile, env, resume,
                    memory, history, dirty, flushedAt, obs, det >>

\* Between two invocations the input file is deleted.
DeleteInput ==
    /\ pc \in Stopped
    /\ runs < MaxRuns
    /\ inputExists
    /\ inputExists' = FALSE
    /\ pc' = "idle"
    /\ UNCHANGED << inputFile, enhancedFile, progressFile, env, resume,
                    memory, history, dirty, flushedAt, obs, det >>

Next ==
    \/ \E r \in BOOLEAN : Enhance(r)
    \/ Merge
    \/ Skip
    \/ CallFetch
    \/ \E presp \in ProfileResponses, vresp \in VideoResponses :
           FetchReturn(presp, vresp)
    \/ UpdateCell
    \/ Record
    \/ PeriodicSave
    \/ LoopExit
    \/ FinalSave
    \/ RemoveProgress
    \/ KeyboardInterrupt
    \/ Kill
    \/ KillInSave
    \/ DamageProgress
    \/ DeleteInput

Spec == Init /\ [][Next]_vars

\* A long subscription list on a mostly healthy remote site.
InitLong == InitWith(NumSubjectsLong, 1, 0, 1)

SpecLong == InitLong /\ [][Next]_vars

\* ------------------------------------------- a run over an earlier dataset
\* enhance run where subscriptions_enhanced.csv is already there, left by
\* runs over earlier subscription lists or put there by hand: its rows are
\* for channels of the list or for another channel, in any order, a channel
\* any number of times, each row enriched or blank.
MaxPriorRows == 3

PriorRowCells ==
    {[k \in 1..NumColumns |-> EmptyCell],
     [k \in 1..NumColumns |->
        to_csv_cell(StatsValue(fetch_channel_stats(
            [status |-> OkStatus, soup |-> Page, daily |-> "rows"],
            "videos"), k))]}

PriorRows ==
    [channel_id : 1..(NumSubjects + 1), cells : PriorRowCells]

PriorDatasets ==
    {[exists |-> TRUE, ncols |-> NumColumns, rows |-> rows] :
        rows \in UNION {[1..len -> PriorRows] : len \in 1..MaxPriorRows}}

InitMerge ==
    /\ inputFile = InputRows(NumSubjects)
    /\ inputExists = TRUE
    /\ enhancedFile \in PriorDatasets
    /\ progressFile \in {NoProgress, save_progress({1})}
    /\ failBudget = 0
    /\ degradeBudget = 0
    /\ stopBudget = 0
    /\ pc = "idle"
    /\ resume = TRUE
    /\ df = EmptyFrame
    /\ processed = {}
    /\ idx = 0
    /\ stats = FailSignal
    /\ response = NoResponse
    /\ col = 0
    /\ runs = 0
    /\ prevEnd = "none"
    /\ doneFile = NoFile
    /\ loaded = {}
    /\ prior = << >>
    /\ fetched = {}
    /\ failed = {}
    /\ skipped = {}
    /\ failedPrev = {}
    /\ dirty = {}
    /\ flushedAt = {}
    /\ removed = FALSE
    /\ obs = [i \in 1..NumSubjects |-> Unseen]
    /\ det = TRUE

NextMerge ==
    \/ \E r \in BOOLEAN : Enhance(r)
    \/ Merge
    \/ Skip
    \/ CallFetch
    \/ \E presp \in ProfileResponses, vresp \in VideoResponses :
           FetchReturn(presp, vresp)
    \/ UpdateCell
    \/ Record
    \/ PeriodicSave
    \/ LoopExit
    \/ FinalSave
    \/ RemoveProgress

SpecMerge == InitMerge /\ [][NextMerge]_vars

\* ---------------------------------------------------------- the scraper alone
\* scraper.fetch_channel_stats(channel_id) called on a SocialBladeScraper by
\* itself, for any page and any video list the remote site may answer with.
Scrape(presp, vresp) ==
    /\ pc = "idle"
    /\ stats' = fetch_channel_stats(presp, vresp)
    /\ response' = Answered(presp, vresp)
    /\ UNCHANGED << files, env, pc, resume, df, processed, idx, col, history,
                    dirty, flushedAt, obs, det >>

InitScrape == InitWith(NumSubjects, 0, 0, 0)

NextScrape ==
    \E presp \in AllProfileResponses, vresp \in AllVideoResponses :
        Scrape(presp, vresp)

SpecScrape == InitScrape /\ [][NextScrape]_vars

\* =============================================================== properties
ChannelAt(i) == df.rows[i].channel_id

\* The cells of a channel in the dataset merged at the start of the run.
PriorCells(c) ==
    IF \E j \in 1..Len(prior) : prior[j].channel_id = c
    THEN prior[CHOOSE j \in 1..Len(prior) : prior[j].channel_id = c].cells
    ELSE NoneCells

\* The dataset file holds a row of the channel with a StatsResult in it.
FileRowEnriched(c) ==
    /\ enhancedFile.exists
    /\ \E j \in 1..Len(enhancedFile.rows) :
          /\ enhancedFile.rows[j].channel_id = c
          /\ \E k \in 1..NumColumns : enhancedFile.rows[j].cells[k] # EmptyCell

\* The dataset file one run from no files leaves when it is not interrupted
\* and every fetch returns what was observed for its channel.
UninterruptedRun ==
    to_csv([ncols |-> IF \E i \in 1..Len(inputFile) : obs[i].ok
                      THEN NumColumns ELSE 0,
            rows  |-> [i \in 1..Len(inputFile) |->
                         [channel_id |-> inputFile[i].channel_id,
                          cells |-> IF obs[inputFile[i].channel_id].ok
                                    THEN [k \in 1..NumColumns |->
                                            StatsValue(obs[inputFile[i].channel_id], k)]
                                    ELSE NoneCells]]])

MemoryLive == pc \in InTry \cup {"done", "interrupted"}

\* C1: in a run with resume, fetch_channel_stats is never called for a channel
\* of the checkpoint file the run found, and every such channel the loop has
\* passed was skipped.
C1_ResumeSkipsCheckpointed ==
    (resume /\ MemoryLive) =>
        /\ fetched \cap loaded = {}
        /\ \A i \in 1..idx : ChannelAt(i) \in loaded => ChannelAt(i) \in skipped

C1_Witness ==
    /\ resume
    /\ pc = "done"
    /\ loaded # {}
    /\ skipped \cap loaded # {}
    /\ fetched # {}

\* C2: every id of the checkpoint file has an enriched row in the dataset
\* file, in every state (the process may stop in any of them).
C2_CheckpointedRowPersisted ==
    \A c \in progressFile.ids : FileRowEnriched(c)

\* C3: a run from no files stopped by Ctrl-C and followed by a resumed run
\* that completes leaves the dataset file of one uninterrupted run, when no
\* channel was fetched with two different results.
C3_ResumedEqualsUninterrupted ==
    (pc = "done" /\ runs = 2 /\ prevEnd = "interrupted" /\ resume /\ det) =>
        enhancedFile = UninterruptedRun

\* C4: from the moment fetch_channel_stats returns None to the end of the
\* iteration, no step changes the row, adds the channel to
\* processed_channels or adds it to the checkpoint file.
C4_FailureLeavesRowAndCheckpoint ==
    [][ ((pc = "fetch" /\ pc' = "record") \/
         (pc \in {"record", "periodic"} /\ ~stats.ok)) =>
            /\ pc' # "killed" => df'.rows[idx + 1] = df.rows[idx + 1]
            /\ Row.channel_id \notin processed'
            /\ Row.channel_id \in progressFile'.ids =>
                   Row.channel_id \in progressFile.ids ]_vars

C4_Witness ==
    /\ pc = "loop"
    /\ idx >= 1
    /\ ChannelAt(idx) \in failed
    /\ ChannelAt(idx) \notin processed
    /\ progressFile.exists

\* C5: when an invocation of enhance ends (enhance_data completed, or the
\* command returned early), every channel whose fetch failed in the previous
\* run has been fetched again.
C5_FailedFetchedAgain ==
    (runs >= 2 /\ pc \in {"done", "returned"}) => failedPrev \subseteq fetched

\* C6: after Ctrl-C the dataset file is the written DataFrame and the
\* checkpoint file exists and holds processed_channels.
C6_InterruptFlushesBoth ==
    pc = "interrupted" =>
        /\ enhancedFile = to_csv(df)
        /\ progressFile.exists
        /\ progressFile.ids = processed

C6_Witness ==
    /\ pc = "interrupted"
    /\ idx >= 1
    /\ idx < Len(df.rows)
    /\ processed # {}
    /\ \E k \in 1..NumColumns : df.rows[idx + 1].cells[k] # NoneVal

\* C7: at Done the dataset file is the written DataFrame and there is no
\* checkpoint file.
C7_DoneWrittenAndCleared ==
    pc = "done" =>
        /\ enhancedFile = to_csv(df)
        /\ ~progressFile.exists

C7_Witness ==
    /\ pc = "done"
    /\ removed
    /\ \E i \in 2..Len(df.rows) : ChannelAt(i) \in fetched \ failed

\* C8: the checkpoint file is removed only by a run in which no fetch failed
\* and every channel was skipped or fetched.
C8_RemovedOnlyAfterSuccess ==
    removed =>
        /\ failed = {}
        /\ \A i \in 1..Len(inputFile) :
              inputFile[i].channel_id \in skipped \cup fetched

\* C9: at most SaveEvery channels are merged into df and not yet written.
C9_UnsavedAtMostK == Cardinality(dirty) <= SaveEvery

\* C10: after the merge, a row whose channel was not fetched successfully in
\* this run (skipped, failed, or not reached) holds the cells the channel
\* had in the prior dataset as loaded; only the rows of successfully fetched
\* channels differ from it.
C10_MergePreservesUnfetched ==
    (MemoryLive /\ pc # "merge") =>
        \A i \in 1..Len(df.rows) :
            ChannelAt(i) \notin (fetched \ failed) =>
                df.rows[i].cells = PriorCells(ChannelAt(i))

C10_Witness ==
    /\ pc = "done"
    /\ \E i, j \in 1..Len(df.rows) :
          /\ ChannelAt(i) \in skipped
          /\ df.rows[i].cells # NoneCells
          /\ ChannelAt(j) \in fetched \ failed
          /\ df.rows[j].cells # PriorCells(ChannelAt(j))

C12_UnreadableCheckpointStartsEmpty ==
    (/\ resume
     /\ inputExists
     /\ pc \in {"merge", "aborted"}
     /\ ~progressFile.exists \/ progressFile.content # "progress") =>
        /\ pc = "merge"
        /\ processed = {}

\* C13 (as stated): no step of a run before the removal at its end takes an
\* identifier out of the checkpoint file: what save_progress writes holds
\* every identifier the file held.
C13_CheckpointNeverShrinks ==
    [][ (pc \in InTry /\ pc' \in InTry \cup {"interrupted"}) =>
            StoredIds(progressFile) \subseteq StoredIds(progressFile') ]_vars

\* C13: the same, for a run with resume.
C13_ResumedCheckpointNeverShrinks ==
    [][ (resume /\ pc \in InTry /\ pc' \in InTry \cup {"interrupted"}) =>
            StoredIds(progressFile) \subseteq StoredIds(progressFile') ]_vars

C13_Witness ==
    /\ resume
    /\ pc \in InTry
    /\ loaded # {}
    /\ processed # loaded
    /\ loaded \subseteq StoredIds(progressFile)
    /\ StoredIds(progressFile) = processed

\* C14: while the input file is missing the process is never inside the
\* loop; an invocation ends at once, with no channel fetched, and leaves the
\* dataset file and the checkpoint file as they were.
C14_MissingInputTouchesNothing ==
    [][ ~inputExists =>
            /\ pc' \in Stopped
            /\ enhancedFile' = enhancedFile
            /\ runs' = runs + 1 =>
                   /\ pc' \in {"aborted", "returned"}
                   /\ fetched' = {}
                   /\ progressFile' = progressFile ]_vars

C14_Witness ==
    /\ ~inputExists
    /\ pc = "aborted"
    /\ fetched = {}
    /\ enhancedFile.exists
    /\ progressFile.exists
    /\ progressFile.content = "progress"

\* The scalar fields of a SocialBladeStats kept here.
Scalars == Selectors \cup {"last_video_upload_date"}

\* C15: no scalar field of a SocialBladeStats that fetch_channel_stats
\* returned is None, whatever the page and the video list were.
C15_ScalarsNeverNull ==
    stats.ok => \A f \in Scalars : stats[f] # NoneVal

\* C16: for a page answered with status 200 in which every selector finds
\* either nothing or a full element, fetch_channel_stats returns a
\* SocialBladeStats whose field is "N/A" for exactly the selectors that find
\* nothing and the element's content for the others.
C16_MissingLocatorsGiveSentinels ==
    (/\ response.profile.status = OkStatus
     /\ \A sel \in Selectors :
            response.profile.soup[sel] \in {"missing", "full"}) =>
        /\ stats.ok
        /\ \A sel \in Selectors :
               stats[sel] = IF response.profile.soup[sel] = "missing"
                            THEN NA ELSE Content(sel)

C16_Witness ==
    /\ response.profile.status = OkStatus
    /\ stats.ok
    /\ \E a, b \in Selectors :
          /\ response.profile.soup[a] = "missing"
          /\ response.profile.soup[b] = "full"
          /\ stats[a] = NA
          /\ stats[b] = Content(b)
    /\ \A sel \in Selectors :
          response.profile.soup[sel] \in {"missing", "full"}

\* C18: an invocation with --no-resume skips no channel, and when it ends
\* (enhance_data completed, or the command returned early) it has called
\* fetch_channel_stats for every channel of the input.
C18_NoResumeFetchesAll ==
    /\ (~resume /\ runs >= 1) => skipped = {}
    /\ (~resume /\ runs >= 1 /\ pc \in {"done", "returned"}) =>
           \A i \in 1..Len(inputFile) : inputFile[i].channel_id \in fetched

\* C19: once the loop has passed a position whose idx is a multiple of
\* SaveEvery, the periodic to_csv has run at that position, whether the
\* channel there was fetched, failed or skipped.
C19_EveryKthPositionFlushed ==
    MemoryLive =>
        \A i \in 0..(idx - 1) : SaveDue(i) => i \in flushedAt

\* C20: the dataset file written by the Ctrl-C handler holds the row of the
\* channel whose SocialBladeStats was being merged either with every column
\* of that result or as it was before the fetch, never with some columns of
\* the result and not the others.
C20_NoHalfWrittenRow ==
    (pc = "interrupted" /\ stats.ok /\ idx < Len(df.rows)) =>
        LET cells == enhancedFile.rows[idx + 1].cells
        IN  \/ \A k \in 1..NumColumns :
                   cells[k] = to_csv_cell(StatsValue(stats, k))
            \/ \A k \in 1..NumColumns :
                   cells[k] = to_csv_cell(PriorCells(Row.channel_id)[k])

\* C21: a Ctrl-C is acted on only between two channels: when the handler has
\* flushed and the run has stopped, every channel whose fetch was started in
\* this run has had its fetch completed and, when the fetch gave a result,
\* its checkpoint record written.
C21_StopOnlyBetweenChannels ==
    pc = "interrupted" =>
        \A c \in fetched : c \in failed \/ c \in StoredIds(progressFile)

\* C22: the dataset file read back by the next run is the dataset that was
\* flushed, cell for cell, the "N/A" cells and the empty cells included: so
\* the dataset the next run holds once it has loaded and joined the file
\* would be written out as that very file.
C22_FlushLoadRoundTrip ==
    (pc = "loop" /\ idx = 0 /\ enhancedFile.exists) =>
        to_csv(df) = enhancedFile

\* C23: once the checkpoint record of a successfully fetched channel has
\* been made, the checkpoint file holds the whole set of processed channels
\* that is in memory, not only the channel just added.
C23_CheckpointIsWholeSet ==
    (pc = "periodic" /\ stats.ok) =>
        /\ Row.channel_id \in processed
        /\ progressFile = save_progress(processed)

C23_Witness ==
    /\ pc = "periodic"
    /\ stats.ok
    /\ Cardinality(processed) >= 2
    /\ progressFile = save_progress(processed)

\* C24: a fetch whose profile page came back with a status other than 200
\* returns None, having sent the one profile request and nothing else: no
\* second profile request, no video-list request.
C24_Non200NoFurtherRequest ==
    (response.requests # << >> /\ response.profile.status # OkStatus) =>
        /\ stats = FailSignal
        /\ response.requests = << "get" >>
        /\ response.video = "none"

C24_Witness ==
    /\ response.requests = << "get" >>
    /\ response.profile.status = ErrorStatus
    /\ stats = FailSignal

Ids(rows) == [i \in 1..Len(rows) |-> rows[i].channel_id]

C27_FetchOutcomeNeverHalts ==
    /\ pc = "aborted" => fetched = {}
    /\ pc = "done" =>
           \A i \in 1..Len(df.rows) : ChannelAt(i) \in fetched \cup skipped

\* C28: a channel whose profile page was fetched and whose video-list
\* request failed is in the checkpoint file once its record is made, as a
\* fully fetched channel is; and a resumed run that finds a channel in the
\* checkpoint with no video list in the dataset does not fetch it: its row
\* keeps the video cells it had.
C28_PartialSuccessCheckpointed ==
    /\ (/\ pc = "periodic"
        /\ response.requests = << "get", "post" >>
        /\ response.video = "500") =>
           /\ stats.ok
           /\ Row.channel_id \in StoredIds(progressFile)
    /\ (resume /\ MemoryLive /\ pc # "merge") =>
           \A i \in 1..Len(df.rows) :
               (/\ ChannelAt(i) \in loaded
                /\ PriorCells(ChannelAt(i))[NumColumns] = NoneVal) =>
                   /\ ChannelAt(i) \notin fetched
                   /\ df.rows[i].cells = PriorCells(ChannelAt(i))

C28_Witness ==
    /\ resume
    /\ pc = "done"
    /\ \E i \in 1..Len(df.rows) :
          /\ ChannelAt(i) \in loaded \cap skipped
          /\ obs[ChannelAt(i)].ok
          /\ obs[ChannelAt(i)].last_50_videos_stats_json = NoneVal
          /\ df.rows[i].cells[NumColumns] = NoneVal
          /\ df.rows[i].cells[DailyColumnAfter] # NoneVal

====
